---------------------------- MODULE Spec2Model ----------------------------
(***************************************************************************)
(* Model of app.py: the lead-export uploader.                              *)
(*                                                                         *)
(*  - upload_to_sheet (lines 65-111): read the file, classify its header,  *)
(*    validate the mandatory fields, then replace or append a worksheet of *)
(*    the remote spreadsheet.  Every remote call may fail; the call that   *)
(*    fails is an input of the action (failAt).                            *)
(*  - the module-level script of lines 126-177: detection by single        *)
(*    columns and the standardize / clean steps on a DataFrame.            *)
(*                                                                         *)
(* The remote spreadsheet is a function from the titles of the worksheets  *)
(* that exist to their grids; a grid is the sequence of its non-empty rows *)
(* and a row the sequence of its cells.  Values are stored as sent: what   *)
(* the backend makes of a USER_ENTERED string is not part of app.py.       *)
(***************************************************************************)
EXTENDS Integers, Sequences, FiniteSets, TLC

VARIABLES
    spreadsheet,   \* remote store: [titles of existing worksheets -> grid]
    input_type,    \* st.session_state.input_type: "None", "MCAI", "WHATCONVERTS"
    file,          \* the file the operator has picked for upload_to_sheet
    call,          \* record of the most recent run of upload_to_sheet
    last_matched,  \* history: kind of the latest upload whose header matched a marker set
    uploaded_file, \* the DataFrame read at line 127 (NoFile when there is none)
    df,            \* the DataFrame after lines 143-175
    script         \* how the script of lines 126-177 ended

vars == <<spreadsheet, input_type, file, call, last_matched, uploaded_file, df, script>>

-----------------------------------------------------------------------------
(* Bounds of the model *)

MaxDataRows == 1      \* data rows of an uploaded file: 0..MaxDataRows
MaxGridRows == 3      \* rows a worksheet may hold before uploads stop growing it
MaxCellLen == 3       \* characters of a DataFrame cell: 0..MaxCellLen
MaxFrameRows == 1     \* rows of a DataFrame: 0..MaxFrameRows

-----------------------------------------------------------------------------
(* Sequences as Python lists *)

Range(s) == {s[i] : i \in 1..Len(s)}

\* Python's  x in list
In(x, list) == \E i \in 1..Len(list) : list[i] = x

\* Python's  all(x in header for x in names)
AllIn(names, header) == \A i \in 1..Len(names) : In(names[i], header)

Reverse(s) == [i \in 1..Len(s) |-> s[Len(s) + 1 - i]]

Max(a, b) == IF a >= b THEN a ELSE b

-----------------------------------------------------------------------------
(* Lines 74-82: marker and mandatory columns *)

McaiMarkers == <<"Date Created (PST)", "Final AI Attribution", "Potential Lead?">>
WcMarkers == <<"Account", "Profile", "Quotable">>
McaiMandatory ==
    <<"Date Created (PST)", "Lead ID", "Lead Type", "Answered?", "Sales Call Score">>
WcMandatory == <<"Lead ID", "Account", "Profile">>

is_mcai(header) == AllIn(McaiMarkers, header)
is_wc(header) == AllIn(WcMarkers, header)

\* faulty variant: the WhatConverts markers are tried first
Classify_wc_first(header) ==
    IF is_wc(header) THEN "WHATCONVERTS"
    ELSE IF is_mcai(header) THEN "MCAI"
    ELSE "UNKNOWN"

\* lines 77-85: the branch taken
Classify(header) ==
    IF is_mcai(header) THEN "MCAI"
    ELSE IF is_wc(header) THEN "WHATCONVERTS"
    ELSE "UNKNOWN"

\* faulty variant: the MCAI list without its last field
mandatory_fields_short(kind) ==
    IF kind = "MCAI" THEN SubSeq(McaiMandatory, 1, Len(McaiMandatory) - 1)
    ELSE IF kind = "WHATCONVERTS" THEN WcMandatory
    ELSE <<>>

\* lines 78, 81
mandatory_fields(kind) ==
    IF kind = "MCAI" THEN McaiMandatory
    ELSE IF kind = "WHATCONVERTS" THEN WcMandatory
    ELSE <<>>

\* faulty variant: the scan stops at the first field that is missing
missing_fields_first(kind, header) ==
    LET all == SelectSeq(mandatory_fields(kind), LAMBDA f : ~In(f, header))
    IN  IF all = <<>> THEN <<>> ELSE <<all[1]>>

\* line 87: [f for f in mandatory_fields if f not in header]
missing_fields(kind, header) ==
    SelectSeq(mandatory_fields(kind), LAMBDA f : ~In(f, header))

-----------------------------------------------------------------------------
(* The remote spreadsheet and its calls.  A remote state carries the store, *)
(* the changing calls that took effect, the number of calls issued, the    *)
(* call that is to fail and the exception in flight.                       *)

\* the titles uploads are aimed at; the store may hold other worksheets
SheetNames == {"Leads"}
Modes == {"replace", "append"}

\* the remote call that fails, counted from 1 within one upload; 0: none fails.
\* An upload issues at most four calls (worksheet, del_worksheet,
\* add_worksheet, update).
FailPoints == 0..4

NoSheets == [n \in {} |-> <<>>]

Begin(ss, failAt) ==
    [ss |-> ss, ops |-> <<>>, n |-> 0, failAt |-> failAt, exc |-> "none"]

\* a call is skipped when an exception is in flight and fails when its turn comes
Skipped(st) == st.exc # "none"
Fails(st) == st.n + 1 = st.failAt
Failed(st) == [st EXCEPT !.n = @ + 1, !.exc = "APIError"]

\* spreadsheet.worksheet(title), lines 94 and 105
GetWorksheet(st, title) ==
    IF Skipped(st) THEN st
    ELSE IF Fails(st) THEN Failed(st)
    ELSE IF title \notin DOMAIN st.ss
         THEN [st EXCEPT !.n = @ + 1, !.exc = "WorksheetNotFound"]
    ELSE [st EXCEPT !.n = @ + 1]

\* spreadsheet.del_worksheet(ws), line 95
DelWorksheet(st, title) ==
    IF Skipped(st) THEN st
    ELSE IF Fails(st) THEN Failed(st)
    ELSE [st EXCEPT !.n = @ + 1,
                    !.ss = [t \in DOMAIN st.ss \ {title} |-> st.ss[t]],
                    !.ops = Append(@, "del_worksheet")]

\* spreadsheet.add_worksheet(title, rows, cols), line 100: a new, empty grid;
\* the backend refuses a title that is in use
AddWorksheet(st, title) ==
    IF Skipped(st) THEN st
    ELSE IF Fails(st) \/ title \in DOMAIN st.ss THEN Failed(st)
    ELSE [st EXCEPT !.n = @ + 1,
                    !.ss = [t \in DOMAIN st.ss \cup {title} |->
                               IF t = title THEN <<>> ELSE st.ss[t]],
                    !.ops = Append(@, "add_worksheet")]

\* a grid with `values` written from its top-left cell: the cells of the
\* rectangle are overwritten, every other cell stays
OverlayRow(old, new) ==
    [j \in 1..Max(Len(old), Len(new)) |-> IF j <= Len(new) THEN new[j] ELSE old[j]]

Overlay(old, new) ==
    [i \in 1..Max(Len(old), Len(new)) |->
        IF i > Len(new) THEN old[i]
        ELSE IF i > Len(old) THEN new[i]
        ELSE OverlayRow(old[i], new[i])]

\* ws.update(values), line 101
Update(st, title, values) ==
    IF Skipped(st) THEN st
    ELSE IF Fails(st) THEN Failed(st)
    ELSE [st EXCEPT !.n = @ + 1,
                    !.ss[title] = Overlay(@, values),
                    !.ops = Append(@, "update")]

\* ws.append_rows(values), line 107
AppendRows(st, title, values) ==
    IF Skipped(st) THEN st
    ELSE IF Fails(st) THEN Failed(st)
    ELSE [st EXCEPT !.n = @ + 1,
                    !.ss[title] = @ \o values,
                    !.ops = Append(@, "append_rows")]

-----------------------------------------------------------------------------
(* upload_to_sheet, lines 65-111 *)

\* lines 93-97: delete the old worksheet, WorksheetNotFound is passed over
DeleteOld(st, sheet_name) ==
    LET got == GetWorksheet(st, sheet_name)
    IN  IF got.exc = "WorksheetNotFound" THEN [got EXCEPT !.exc = "none"]
        ELSE DelWorksheet(got, sheet_name)

\* faulty variant: an existing worksheet is kept and written over
ReplaceSheet_keep(st, sheet_name, table) ==
    LET got == GetWorksheet(st, sheet_name)
    IN  IF got.exc = "WorksheetNotFound"
        THEN Update(AddWorksheet([got EXCEPT !.exc = "none"], sheet_name), sheet_name, table)
        ELSE Update(got, sheet_name, table)

\* lines 92-102
ReplaceSheet(st, sheet_name, table) ==
    Update(AddWorksheet(DeleteOld(st, sheet_name), sheet_name), sheet_name, table)

\* faulty variant: the header row is not cut off
append_rows_all(table) == table

\* line 106: df.values.tolist()[1:]
append_rows(table) == SubSeq(table, 2, Len(table))

\* faulty variant: a worksheet that is not there is created
AppendSheet_create(st, sheet_name, table) ==
    LET got == GetWorksheet(st, sheet_name)
    IN  AppendRows(IF got.exc = "WorksheetNotFound"
                   THEN AddWorksheet([got EXCEPT !.exc = "none"], sheet_name)
                   ELSE got,
                   sheet_name, append_rows(table))

\* lines 104-107
AppendSheet(st, sheet_name, table) ==
    AppendRows(GetWorksheet(st, sheet_name), sheet_name, append_rows(table))

\* what the operator is shown: st.error / st.success
Msg(type, sheet, fields, error) ==
    [type |-> type, sheet |-> sheet, fields |-> fields, error |-> error]

\* lines 102, 108, 110-111: the message for the remote state an upload ends in
Report(st, sheet_name, mode) ==
    [ss |-> st.ss, ops |-> st.ops, calls |-> st.n,
     msg |-> IF st.exc # "none" THEN Msg("failed", sheet_name, <<>>, st.exc)
             ELSE IF mode = "replace" THEN Msg("replaced", sheet_name, <<>>, "none")
             ELSE IF mode = "append" THEN Msg("appended", sheet_name, <<>>, "none")
             ELSE Msg("none", sheet_name, <<>>, "none")]

\* lines 92-111: the remote part and its messages
Write(ss, sheet_name, table, mode, failAt) ==
    Report(IF mode = "replace" THEN ReplaceSheet(Begin(ss, failAt), sheet_name, table)
           ELSE IF mode = "append" THEN AppendSheet(Begin(ss, failAt), sheet_name, table)
           ELSE Begin(ss, failAt),
           sheet_name, mode)

\* faulty variant: the flag is not assigned
set_input_type_kept(flag, kind) == flag

\* lines 79, 82: st.session_state.input_type = kind
set_input_type(flag, kind) == kind

\* lines 66-111: the whole run, from the store and the flag it starts with.
\* Line 110 catches every Exception, so none leaves the function: a failure
\* is the message of type "failed".
Upload(ss, flag, sheet_name, f, mode, failAt) ==
    IF Len(f.table) = 0
    THEN \* lines 67-72: nothing to read, caught at line 110
         [ss |-> ss, ops |-> <<>>, calls |-> 0, input_type |-> flag, kind |-> "none",
          msg |-> Msg("failed", sheet_name, <<>>, "ReadError")]
    ELSE
    LET header == f.table[1]
        kind == Classify(header)
        missing == missing_fields(kind, header)
    IN  IF kind = "UNKNOWN"
        THEN [ss |-> ss, ops |-> <<>>, calls |-> 0, input_type |-> flag, kind |-> kind,
              msg |-> Msg("unknown", "", <<>>, "none")]
        ELSE IF missing # <<>>
        THEN [ss |-> ss, ops |-> <<>>, calls |-> 0,
              input_type |-> set_input_type(flag, kind), kind |-> kind,
              msg |-> Msg("missing", "", missing, "none")]
        ELSE [input_type |-> set_input_type(flag, kind), kind |-> kind]
                 @@ Write(ss, sheet_name, f.table, mode, failAt)

\* the kind a header matches, from the marker sets alone (for the history)
MatchedKind(f) ==
    IF Len(f.table) = 0 THEN "UNKNOWN"
    ELSE LET cols == Range(f.table[1])
         IN  IF Range(McaiMarkers) \subseteq cols THEN "MCAI"
             ELSE IF Range(WcMarkers) \subseteq cols THEN "WHATCONVERTS"
             ELSE "UNKNOWN"

upload_to_sheet(sheet_name, mode, failAt) ==
    \E r \in {Upload(spreadsheet, input_type, sheet_name, file, mode, failAt)} :
        /\ \A t \in DOMAIN r.ss : Len(r.ss[t]) <= MaxGridRows
        /\ spreadsheet' = r.ss
        /\ input_type' = r.input_type
        /\ call' = [sheet |-> sheet_name, file |-> file, mode |-> mode,
                    before |-> spreadsheet, kind |-> r.kind, ops |-> r.ops,
                    calls |-> r.calls, msg |-> r.msg]
        /\ last_matched' = IF MatchedKind(file) = "UNKNOWN" THEN last_matched
                           ELSE MatchedKind(file)
        /\ UNCHANGED <<file, uploaded_file, df, script>>

\* the operator picks another file
choose_file(f) ==
    /\ file' = f
    /\ UNCHANGED <<spreadsheet, input_type, call, last_matched, uploaded_file, df, script>>

-----------------------------------------------------------------------------
(* Files the operator uploads *)

H_wc == <<"Lead ID", "Account", "Profile", "Quotable">>
H_mcai == <<"Date Created (PST)", "Lead ID", "Lead Type", "Answered?",
            "Sales Call Score", "Final AI Attribution", "Potential Lead?">>
H_mcai_missing == <<"Date Created (PST)", "Lead ID", "Lead Type", "Answered?",
                    "Final AI Attribution", "Potential Lead?">>
H_wc_missing == <<"Account", "Profile", "Quotable">>
\* both marker sets: every WhatConverts field, not every MCAI field
H_both_missing == H_wc \o McaiMarkers
H_unknown == <<"Lead ID", "Phone">>

Headers == {H_wc, H_mcai, H_mcai_missing, H_wc_missing, H_both_missing, H_unknown}

CellPool == <<"a", "b", "c">>

\* n data rows under a header; the cells of row k hold CellPool's k-th value
DataRows(header, n) ==
    [k \in 1..n |-> [j \in 1..Len(header) |-> CellPool[((k - 1) % Len(CellPool)) + 1]]]

File(header, n) == [table |-> <<header>> \o DataRows(header, n)]
EmptyFile == [table |-> <<>>]

Files == {File(h, n) : h \in Headers, n \in 0..MaxDataRows} \cup {EmptyFile}

\* headers for the classification: every choice of columns, in the order of
\* DetectColumns, in the opposite order, and in both orders one after the other
DetectColumns ==
    <<"Date Created (PST)", "Final AI Attribution", "Potential Lead?",
      "Account", "Profile", "Quotable",
      "Lead ID", "Lead Type", "Answered?", "Sales Call Score", "Phone">>

Pick(S) == SelectSeq(DetectColumns, LAMBDA c : c \in S)

Arrangements == {"ordered", "reversed", "doubled"}

DetectHeader(S, arrangement) ==
    IF arrangement = "ordered" THEN Pick(S)
    ELSE IF arrangement = "reversed" THEN Reverse(Pick(S))
    ELSE Reverse(Pick(S)) \o Pick(S)

-----------------------------------------------------------------------------
(* The script of lines 126-177 on a DataFrame: columns (unique names) and   *)
(* rows of cells.  A cell is a string, as the sequence of its characters,  *)
(* or NaN (an empty cell of the sheet).                                    *)

NaN == [nan |-> TRUE, s |-> <<>>]
Str(chars) == [nan |-> FALSE, s |-> chars]

NoFile == [columns |-> <<>>, rows |-> <<>>]

HasCol(d, name) == In(name, d.columns)
ColIndex(d, name) == CHOOSE j \in 1..Len(d.columns) : d.columns[j] = name

\* df[name]
Column(d, name) == [k \in 1..Len(d.rows) |-> d.rows[k][ColIndex(d, name)]]

\* a scalar on the right of df[name] = ...
Broadcast(d, v) == [k \in 1..Len(d.rows) |-> v]

\* df[name] = values: the column is overwritten, or added as the last column
Assign(d, name, values) ==
    IF HasCol(d, name)
    THEN [d EXCEPT !.rows = [k \in 1..Len(d.rows) |->
                                [@[k] EXCEPT ![ColIndex(d, name)] = values[k]]]]
    ELSE [columns |-> Append(d.columns, name),
          rows |-> [k \in 1..Len(d.rows) |-> Append(d.rows[k], values[k])]]

\* lines 147-151, 165-169: if name not in df.columns: df[name] = ""
EnsureColumn(d, name) ==
    IF HasCol(d, name) THEN d ELSE Assign(d, name, Broadcast(d, Str(<<>>)))

\* str.strip(): whitespace off both ends
IsSpace(c) == c \in {" ", "\t", "\n"}

RECURSIVE LStrip(_)
LStrip(chars) ==
    IF chars = <<>> THEN <<>>
    ELSE IF IsSpace(Head(chars)) THEN LStrip(Tail(chars))
    ELSE chars

strip(chars) == Reverse(LStrip(Reverse(LStrip(chars))))

\* astype(str): NaN becomes the string "nan"
astype_str(cell) == IF cell.nan THEN Str(<<"n", "a", "n">>) ELSE cell

\* faulty variant: astype(str) without str.strip()
Clean_unstripped(d, name) ==
    Assign(d, name, [k \in 1..Len(d.rows) |-> astype_str(Column(d, name)[k])])

\* lines 174-175: df[name].astype(str).str.strip()
Clean(d, name) ==
    Assign(d, name, [k \in 1..Len(d.rows) |->
                        Str(strip(astype_str(Column(d, name)[k]).s))])

\* lines 154-159
MoveMcaiFields(d) ==
    LET q == Assign(d, "Quotable", Column(d, "Potential Lead?"))
        n == Assign(q, "Notes", Column(q, "Final AI Attribution"))
    IN  IF HasCol(n, "Date Created (PST)")
        THEN Assign(n, "Date", Column(n, "Date Created (PST)"))
        ELSE n

\* lines 143-159
StandardizeMcai(d) == MoveMcaiFields(EnsureColumn(EnsureColumn(d, "Quotable"), "Notes"))

\* lines 161-169
StandardizeWc(d) == EnsureColumn(EnsureColumn(d, "Quotable"), "Notes")

\* lines 133-175 for a file that gets through
Process(d) ==
    LET mcai == "Final AI Attribution" \in Range(d.columns)
        whatconverts == "Quotable" \in Range(d.columns)
        a == IF mcai THEN StandardizeMcai(d) ELSE d
        b == IF whatconverts THEN StandardizeWc(a) ELSE a
    IN  Clean(Clean(b, "Quotable"), "Notes")

\* lines 126-177: one run of the script on the uploaded file
process_uploaded_file ==
    /\ uploaded_file # NoFile
    /\ script = "idle"
    /\ IF ~HasCol(uploaded_file, "Final AI Attribution") /\ ~HasCol(uploaded_file, "Quotable")
       THEN \* lines 136-138: st.error, st.stop
            df' = uploaded_file /\ script' = "stopped"
       ELSE IF HasCol(uploaded_file, "Final AI Attribution")
               /\ ~HasCol(uploaded_file, "Potential Lead?")
       THEN \* line 154 raises KeyError, the run ends there
            /\ df' = EnsureColumn(EnsureColumn(uploaded_file, "Quotable"), "Notes")
            /\ script' = "KeyError"
       ELSE df' = Process(uploaded_file) /\ script' = "processed"
    /\ UNCHANGED <<spreadsheet, input_type, file, call, last_matched, uploaded_file>>

\* DataFrames the script is run on
Alphabet == {" ", "Y"}

RECURSIVE Strings(_)
Strings(n) ==
    IF n = 0 THEN {<<>>}
    ELSE Strings(n - 1) \cup {Append(w, c) : w \in Strings(n - 1), c \in Alphabet}

Cells == {NaN} \cup {Str(w) : w \in Strings(MaxCellLen)}

\* what a Quotable column holds in the row whose "Potential Lead?" is `pick`
OldFor(pick) == IF Len(pick.s) % 2 = 0 THEN Str(<<" ", "o">>) ELSE NaN

ReverseCell(cell) == IF cell.nan THEN cell ELSE Str(Reverse(cell.s))

\* the cell of one row under a column: `pick` is the row's "Potential Lead?",
\* its reverse the row's "Final AI Attribution"; a Quotable column holds
\* OldFor(pick), a Notes column the reverse of that
CellFor(column, pick) ==
    IF column = "Potential Lead?" THEN pick
    ELSE IF column = "Final AI Attribution" THEN ReverseCell(pick)
    ELSE IF column = "Quotable" THEN OldFor(pick)
    ELSE IF column = "Notes" THEN ReverseCell(OldFor(pick))
    ELSE IF column = "Date Created (PST)" THEN Str(<<"d">>)
    ELSE Str(<<"x">>)

FrameColumns ==
    <<"Lead ID", "Potential Lead?", "Final AI Attribution", "Quotable", "Notes",
      "Date Created (PST)", "Date">>

\* the columns of a DataFrame: "Lead ID" and those of S, in FrameColumns' order
FrameHeader(S) == SelectSeq(FrameColumns, LAMBDA c : c = "Lead ID" \/ c \in S)

\* the DataFrame with columns h and one row for each pick
DataFrame(h, picks) ==
    [columns |-> h,
     rows |-> [k \in 1..Len(picks) |-> [j \in 1..Len(h) |-> CellFor(h[j], picks[k])]]]

-----------------------------------------------------------------------------
\* no upload yet
NoCall(ss) ==
    [sheet |-> "", file |-> EmptyFile, mode |-> "none", before |-> ss, kind |-> "none",
     ops |-> <<>>, calls |-> 0, msg |-> Msg("none", "", <<>>, "none")]

\* a worksheet left by earlier sessions
OldGrid == <<<<"Old">>, <<"x">>>>

InitStores ==
    {NoSheets, [n \in {"Archive"} |-> OldGrid], [n \in {"Leads", "Archive"} |-> OldGrid]}

Start ==
    /\ input_type = "None"
    /\ call = NoCall(spreadsheet)
    /\ last_matched = "None"
    /\ uploaded_file = NoFile
    /\ df = NoFile
    /\ script = "idle"

Init ==
    /\ spreadsheet \in InitStores
    /\ file \in Files
    /\ Start

Next ==
    \/ \E f \in Files : choose_file(f)
    \/ \E sheet_name \in SheetNames, mode \in Modes, failAt \in FailPoints :
          upload_to_sheet(sheet_name, mode, failAt)

Spec == Init /\ [][Next]_vars

\* classification and validation of one picked file, over DetectFiles
InitDetect ==
    /\ spreadsheet \in InitStores
    /\ \E S \in SUBSET Range(DetectColumns) \ {{}}, arrangement \in Arrangements :
          file = File(DetectHeader(S, arrangement), 0)
    /\ Start

NextDetect ==
    \E sheet_name \in SheetNames, mode \in Modes, failAt \in FailPoints :
        upload_to_sheet(sheet_name, mode, failAt)

SpecDetect == InitDetect /\ [][NextDetect]_vars

\* the script of lines 126-177 on one uploaded DataFrame
InitNormalize ==
    /\ spreadsheet = NoSheets
    /\ file = EmptyFile
    /\ input_type = "None"
    /\ call = NoCall(spreadsheet)
    /\ last_matched = "None"
    /\ \E S \in SUBSET Range(FrameColumns), n \in 0..MaxFrameRows :
          \E picks \in [1..n -> Cells] : uploaded_file = DataFrame(FrameHeader(S), picks)
    /\ df = NoFile
    /\ script = "idle"

NextNormalize == process_uploaded_file

SpecNormalize == InitNormalize /\ [][NextNormalize]_vars

-----------------------------------------------------------------------------
(* Properties *)

Uploaded == call.mode # "none"
Target == call.sheet
Table == call.file.table
HeaderCols == IF Len(Table) = 0 THEN {} ELSE Range(Table[1])
MatchesMcai == Range(McaiMarkers) \subseteq HeaderCols
MatchesWc == Range(WcMarkers) \subseteq HeaderCols

\* the header of the last upload has a kind and every mandatory field of it
HeaderValid ==
    \/ MatchesMcai /\ Range(McaiMandatory) \subseteq HeaderCols
    \/ ~MatchesMcai /\ MatchesWc /\ Range(WcMandatory) \subseteq HeaderCols

OkReplace == call.mode = "replace" /\ call.msg.type = "replaced"
OkAppend == call.mode = "append" /\ call.msg.type = "appended"

\* the store `ss` with `table` as the whole grid of worksheet `title`
WithSheet(ss, title, table) ==
    [t \in DOMAIN ss \cup {title} |-> IF t = title THEN table ELSE ss[t]]

\* C1: no remote call that changes the spreadsheet is made, and the store is
\* left as it was, unless the header of the upload was classified MCAI or
\* WHATCONVERTS and holds every mandatory field of that kind; a header that
\* matches neither marker set gets the unknown-format error and no write.
C1_NoWriteUnlessValid ==
    Uploaded =>
        /\ (call.ops # <<>> \/ spreadsheet # call.before) => HeaderValid
        /\ (Len(Table) > 0 /\ ~MatchesMcai /\ ~MatchesWc) =>
               /\ call.msg.type = "unknown"
               /\ call.ops = <<>>
               /\ call.calls = 0
               /\ spreadsheet = call.before

C1_Witness ==
    /\ call.mode = "replace"
    /\ Len(Table) > 1
    /\ call.msg.type = "unknown"
    /\ Target \in DOMAIN spreadsheet

\* C2: after any upload the store is unchanged, or holds the full table
\* (replace), or holds the old rows followed by every data row (append).
C2_NoPartialState ==
    Uploaded =>
        \/ spreadsheet = call.before
        \/ call.mode = "replace" /\ spreadsheet = WithSheet(call.before, Target, Table)
        \/ /\ call.mode = "append"
           /\ Target \in DOMAIN call.before
           /\ spreadsheet = WithSheet(call.before, Target,
                                      call.before[Target] \o SubSeq(Table, 2, Len(Table)))

\* C3: the kind of a header is MCAI when its columns include the three MCAI
\* markers, otherwise WHATCONVERTS when they include the three WhatConverts
\* markers, otherwise UNKNOWN; it depends on the set of columns alone.
C3_DetectionRule ==
    (Uploaded /\ Len(Table) > 0) =>
        /\ call.kind = IF MatchesMcai THEN "MCAI"
                       ELSE IF MatchesWc THEN "WHATCONVERTS"
                       ELSE "UNKNOWN"
        /\ call.kind = "UNKNOWN" <=> call.msg.type = "unknown"
        /\ call.kind # "UNKNOWN" => input_type = call.kind

\* both marker sets, columns not in the order of the rule, a column twice
C3_Witness ==
    /\ Uploaded
    /\ call.kind = "MCAI"
    /\ MatchesWc
    /\ Table[1][1] = "Phone"
    /\ Len(Table[1]) > Cardinality(HeaderCols)

\* C4: a REPLACE that succeeds leaves the worksheet holding exactly the
\* table, whatever it held before, and every other worksheet as it was; the
\* same REPLACE run again right after leaves the store as the first left it.
C4_ReplaceIdempotent ==
    [][(call'.mode = "replace" /\ call'.msg.type = "replaced") =>
          /\ call'.sheet \in DOMAIN spreadsheet'
          /\ spreadsheet' = WithSheet(call'.before, call'.sheet, call'.file.table)
          /\ (/\ OkReplace
              /\ call'.sheet = call.sheet
              /\ call'.file = call.file
              /\ call'.before = spreadsheet) => spreadsheet' = spreadsheet]_vars

\* the second of two equal REPLACE uploads, the first over other contents
C4_Witness ==
    /\ OkReplace
    /\ Len(Table) > 1
    /\ Target \in DOMAIN call.before
    /\ call.before[Target] = Table
    /\ spreadsheet = call.before

StringValue(cell) == IF cell.nan THEN <<"n", "a", "n">> ELSE cell.s

\* t is s without the whitespace at its two ends
IsTrimOf(t, s) ==
    \E a \in 0..Len(s) : \E b \in a..Len(s) :
        /\ t = SubSeq(s, a + 1, b)
        /\ \A i \in 1..a : IsSpace(s[i])
        /\ \A i \in (b + 1)..Len(s) : IsSpace(s[i])
        /\ t = <<>> \/ (~IsSpace(t[1]) /\ ~IsSpace(t[Len(t)]))

C7_WrittenTableNormalized ==
    OkReplace =>
        /\ "Notes" \in Range(spreadsheet[Target][1])
        /\ Table = File(H_wc, 1).table =>
              /\ Len(spreadsheet[Target]) = 2
              /\ \A i \in 1..2 : Len(spreadsheet[Target][i]) = 5

\* C8: an upload whose header has kind K is rejected exactly when a mandatory
\* field of K is absent from the header, and the message then lists the
\* absent mandatory fields of K, each once, and nothing else; a rejected
\* upload makes no remote call.
C8_MandatoryValidation ==
    (Uploaded /\ call.kind \in {"MCAI", "WHATCONVERTS"}) =>
        LET absent == Range(IF call.kind = "MCAI" THEN McaiMandatory ELSE WcMandatory)
                          \ HeaderCols
        IN  /\ call.msg.type = "missing" <=> absent # {}
            /\ call.msg.type = "missing" =>
                  /\ Range(call.msg.fields) = absent
                  /\ Len(call.msg.fields) = Cardinality(absent)
                  /\ call.calls = 0
                  /\ spreadsheet = call.before

C8_Witness ==
    /\ Uploaded
    /\ call.kind = "MCAI"
    /\ Range(McaiMandatory) \ HeaderCols = {"Sales Call Score"}
    /\ call.msg.type = "missing"
    /\ call.msg.fields = <<"Sales Call Score">>

\* C9: an APPEND of an accepted file to a title that has no worksheet ends
\* with the failure message naming that title, after one remote call, with
\* no changing call made and the store as it was.
C9_AppendToMissingSheet ==
    (/\ call.mode = "append"
     /\ HeaderValid
     /\ Target \notin DOMAIN call.before) =>
        /\ call.msg.type = "failed"
        /\ call.msg.sheet = Target
        /\ call.msg.error \in {"WorksheetNotFound", "APIError"}
        /\ call.calls = 1
        /\ call.ops = <<>>
        /\ spreadsheet = call.before

C9_Witness ==
    /\ call.mode = "append"
    /\ HeaderValid
    /\ Len(Table) > 1
    /\ Target \notin DOMAIN call.before
    /\ DOMAIN call.before # {}
    /\ call.msg.error = "WorksheetNotFound"

\* C10: input_type is the kind of the latest upload whose header matched a
\* marker set, also when that upload was rejected or failed remotely; it is
\* "None" exactly when no upload has matched; an upload that matches nothing
\* leaves it alone.
C10_InputTypeTracksLastMatch ==
    /\ input_type = last_matched
    /\ input_type \in {"None", "MCAI", "WHATCONVERTS"}
    /\ (Uploaded /\ MatchesMcai) => input_type = "MCAI"
    /\ (Uploaded /\ ~MatchesMcai /\ MatchesWc) => input_type = "WHATCONVERTS"

\* an upload rejected for a missing mandatory field has set the flag
C10_Witness ==
    /\ call.msg.type = "missing"
    /\ call.calls = 0
    /\ input_type = "MCAI"

=============================================================================
